---- MODULE Spec2Model ----
(***************************************************************************)
(* Model of pico2_rp2350_standalone.c: the circular sample window, the     *)
(* three polled cadences of main's loop, the placeholder classifier, the   *)
(* alert policy and the debounced silence button.                          *)
(*                                                                         *)
(* Units.  Sample values (velocity_m_s) are integers in units of 1e-4 m/s. *)
(* A mean over the window and a confidence are exact rationals kept as     *)
(* integers in units of 1/(10000 * WINDOW_SIZE), so that the division by   *)
(* WINDOW_SIZE of run_inference loses nothing: Q(x) is the decimal x/10000 *)
(* in that unit.  Time is the 32-bit millisecond counter of                *)
(* to_ms_since_boot.                                                       *)
(***************************************************************************)
EXTENDS Integers, Sequences, FiniteSets, TLC

(***************************************************************************)
(* Bounds of the model                                                     *)
(***************************************************************************)
\* capacity of the window (256 in the source, scaled down)
WINDOW_SIZE == 3
\* number of loop iterations explored (heartbeat_counter stops here)
MaxIter == 4
\* largest counter value the policy specification starts from
MaxEvents == 2

(***************************************************************************)
(* Program constants                                                       *)
(***************************************************************************)
SAMPLE_PERIOD_MS == 10
STATUS_PERIOD_MS == 30000
DEBOUNCE_MS == 500
\* 2560 in the source: "256 samples at 100 Hz", the window's fill duration
INFERENCE_PERIOD_MS == WINDOW_SIZE * SAMPLE_PERIOD_MS
\* stdio wait of 2000 ms and the startup blink led_blink(LED_BUILTIN, 3, 200)
BootTime == 2000 + 3 * 2 * 200

\* uint32_t arithmetic.  The counter wraps at 2^32 in the source; the model
\* wraps it at 2^20 (TLC integers are 32-bit signed), which is
\* still above every period, stall and blocking time of the model.
ClockModulus == 2 ^ 20
\* the difference taken in a wider type, without the reduction
Sub32_wide(a, b) == a - b
Sub32(a, b) == (a - b + ClockModulus) % ClockModulus
Add32(a, b) == (a + b) % ClockModulus

Q(x) == x * WINDOW_SIZE
Abs(x) == IF x < 0 THEN 0 - x ELSE x

\* calibrated readings of the SM-24 chain, |v| <= 1.65 / 28.8 = 0.0573 m/s
Samples == {100, 0 - 573}
\* extra time one loop iteration may take beyond sleep_ms(1)
Stalls == {0, SAMPLE_PERIOD_MS - 1, 299, 3 * STATUS_PERIOD_MS}

Pins == {"LED_BUILTIN", "LED_STATUS", "LED_ALERT", "BUZZER_PIN"}
Slots == 0 .. (WINDOW_SIZE - 1)

VARIABLES
    clock,                  \* to_ms_since_boot(get_absolute_time())
    pc,                     \* position in main's loop
    now,                    \* main: uint32_t now
    prev_now,               \* ghost: now of the previous iteration
    last_sample_time, last_inference_time, last_status_time,
    heartbeat_counter,
    geophone_buffer,        \* [buffer, index, filled]
    inference,              \* main: inference_result_t inference
    total_events, high_confidence_events, critical_events,
    alert_silenced,
    last_press,             \* check_button: static uint32_t last_press
    gpio,                   \* output pin levels
    button_pin,             \* level of BUTTON_PIN (pull-up: FALSE = pressed)
    pushes,                 \* ghost: number of buffer_add_sample calls
    recent,                 \* ghost: the pushed values, oldest first, last WINDOW_SIZE
    window_read,            \* ghost: the values run_inference read, in reading order
    fired,                  \* ghost: fires of each cadence in this iteration
    fire_now,               \* ghost: now of the iteration each cadence last fired in (-1: never)
    pushes_at_inference,    \* ghost: pushes when the classifier last ran (-1: never)
    toggles,                \* ghost: accepted toggles so far, capped at 2
    button_read,            \* ghost: what check_button did in this iteration
    sinks                   \* ghost: what the alert sinks were asked to render

vars == << clock, pc, now, prev_now, last_sample_time, last_inference_time,
           last_status_time, heartbeat_counter, geophone_buffer, inference,
           total_events, high_confidence_events, critical_events,
           alert_silenced, last_press, gpio, button_pin, pushes, recent,
           window_read, fired, fire_now, pushes_at_inference, toggles, button_read,
           sinks >>

(***************************************************************************)
(* LED and buzzer control                                                  *)
(***************************************************************************)
NoSinks == [level |-> "none", status |-> 0, alert |-> 0, buzzer |-> 0,
            latch |-> FALSE, feedback |-> 0]

\* led_blink: count pulses, the pin is left low, blocks 2*count*duration_ms
led_blink(g, pin, count, duration_ms) ==
    [gpio |-> [g EXCEPT ![pin] = 0], pulses |-> count,
     ms |-> count * 2 * duration_ms]

\* buzzer_beep without its "if (alert_silenced) return"
buzzer_beep_ungated(silenced, g, count, duration_ms) ==
    [gpio |-> [g EXCEPT !["BUZZER_PIN"] = 0], pulses |-> count,
     ms |-> count * 2 * duration_ms]

buzzer_beep(silenced, g, count, duration_ms) ==
    IF silenced
    THEN [gpio |-> g, pulses |-> 0, ms |-> 0]
    ELSE [gpio |-> [g EXCEPT !["BUZZER_PIN"] = 0], pulses |-> count,
          ms |-> count * 2 * duration_ms]

alert_low_confidence(silenced, g) ==
    LET l == led_blink(g, "LED_STATUS", 2, 200)
    IN  [gpio |-> l.gpio, ms |-> l.ms,
         sinks |-> [NoSinks EXCEPT !.level = "low", !.status = l.pulses]]

alert_high_confidence(silenced, g) ==
    LET l == led_blink(g, "LED_ALERT", 5, 100)
        b == buzzer_beep(silenced, l.gpio, 3, 150)
    IN  [gpio |-> b.gpio, ms |-> l.ms + b.ms,
         sinks |-> [NoSinks EXCEPT !.level = "high", !.alert = l.pulses,
                                   !.buzzer = b.pulses]]

alert_critical(silenced, g) ==
    LET l == led_blink(g, "LED_ALERT", 10, 50)
        b == buzzer_beep(silenced, l.gpio, 5, 100)
    IN  [gpio |-> [b.gpio EXCEPT !["LED_ALERT"] = 1], ms |-> l.ms + b.ms,
         sinks |-> [NoSinks EXCEPT !.level = "critical", !.alert = l.pulses,
                                   !.buzzer = b.pulses, !.latch = TRUE]]

(***************************************************************************)
(* The window                                                              *)
(***************************************************************************)
EmptyBuffer == [buffer |-> [i \in Slots |-> 0], index |-> 0, filled |-> FALSE]

\* buffer_add_sample wrapping one slot early
buffer_add_sample_early(gb, value) ==
    LET stored == [gb.buffer EXCEPT ![gb.index] = value]
        next == gb.index + 1
    IN  IF next >= WINDOW_SIZE - 1
        THEN [buffer |-> stored, index |-> 0, filled |-> TRUE]
        ELSE [buffer |-> stored, index |-> next, filled |-> gb.filled]

buffer_add_sample(gb, value) ==
    LET stored == [gb.buffer EXCEPT ![gb.index] = value]
        next == gb.index + 1
    IN  IF next >= WINDOW_SIZE
        THEN [buffer |-> stored, index |-> 0, filled |-> TRUE]
        ELSE [buffer |-> stored, index |-> next, filled |-> gb.filled]

\* the order in which run_inference reads the window: i = 0 .. WINDOW_SIZE-1
ReadOrder(gb) == [i \in 1 .. WINDOW_SIZE |-> gb.buffer[i - 1]]

RECURSIVE SumAbs(_)
SumAbs(s) == IF s = << >> THEN 0 ELSE Abs(Head(s)) + SumAbs(Tail(s))

(***************************************************************************)
(* The placeholder classifier                                              *)
(***************************************************************************)
\* classify without the clamp of the earthquake band
classify_noclamp(avg_amplitude) ==
    IF avg_amplitude > Q(500)
    THEN [label |-> "earthquake", confidence |-> Q(8500) + avg_amplitude * 2]
    ELSE IF avg_amplitude > Q(200)
    THEN [label |-> "tremor", confidence |-> Q(7000) + avg_amplitude * 5]
    ELSE [label |-> "noise", confidence |-> Q(9500)]

\* label and confidence from the mean absolute value, avg in units of Q
classify(avg_amplitude) ==
    IF avg_amplitude > Q(500)
    THEN LET c == Q(8500) + avg_amplitude * 2
         IN  [label |-> "earthquake",
              confidence |-> IF c > Q(10000) THEN Q(9800) ELSE c]
    ELSE IF avg_amplitude > Q(200)
    THEN LET c == Q(7000) + avg_amplitude * 5
         IN  [label |-> "tremor",
              confidence |-> IF c > Q(10000) THEN Q(8500) ELSE c]
    ELSE [label |-> "noise", confidence |-> Q(9500)]

run_inference(gb) ==
    IF ~gb.filled
    THEN [label |-> "insufficient_data", confidence |-> 0]
    ELSE classify(SumAbs(ReadOrder(gb)))

(***************************************************************************)
(* The alert policy                                                        *)
(***************************************************************************)
\* the strcmp result used as a truth value, without "== 0"
IsQuiet_strcmp(label) == label # "noise"

\* strcmp(result->label, "noise") == 0
IsQuiet(label) == label = "noise"

\* the chain with ">" in place of ">="
Tier_strict(confidence) ==
    IF confidence > Q(9500) THEN "critical"
    ELSE IF confidence > Q(8500) THEN "high"
    ELSE "low"

\* the if / else-if chain on result->confidence, highest threshold first
Tier(confidence) ==
    IF confidence >= Q(9500) THEN "critical"
    ELSE IF confidence >= Q(8500) THEN "high"
    ELSE "low"

\* c holds total_events, high_confidence_events, critical_events
process_inference_result(result, silenced, c, g) ==
    IF IsQuiet(result.label)
    THEN [total |-> c.total, high |-> c.high, critical |-> c.critical,
          gpio |-> g, ms |-> 0, sinks |-> NoSinks]
    ELSE IF Tier(result.confidence) = "critical"
    THEN LET a == alert_critical(silenced, g)
         IN  [total |-> c.total + 1, high |-> c.high,
              critical |-> c.critical + 1,
              gpio |-> a.gpio, ms |-> a.ms, sinks |-> a.sinks]
    ELSE IF Tier(result.confidence) = "high"
    THEN LET a == alert_high_confidence(silenced, g)
         IN  [total |-> c.total + 1, high |-> c.high + 1,
              critical |-> c.critical,
              gpio |-> a.gpio, ms |-> a.ms, sinks |-> a.sinks]
    ELSE LET a == alert_low_confidence(silenced, g)
         IN  [total |-> c.total + 1, high |-> c.high, critical |-> c.critical,
              gpio |-> a.gpio, ms |-> a.ms, sinks |-> a.sinks]

Counters == [total |-> total_events, high |-> high_confidence_events,
             critical |-> critical_events]

(***************************************************************************)
(* The cadences of main's loop                                             *)
(***************************************************************************)
\* "now - last >= period" on uint32_t
Due(t, last, period) == Sub32(t, last) >= period

\* an accumulating cadence: last_fired += period
CadenceStamp_accumulate(t, last, period) == Add32(last, period)

\* the value a cadence stores in its last-fired timestamp when it fires
CadenceStamp(t, last, period) == t

\* the classification test without the readiness gate
InferenceDue_ungated(gb, t, last) == Due(t, last, INFERENCE_PERIOD_MS)

\* the test of the classification cadence
InferenceDue(gb, t, last) == gb.filled /\ Due(t, last, INFERENCE_PERIOD_MS)

\* the debounce test of check_button
ButtonAccepted(level, t, last) == ~level /\ Sub32(t, last) > DEBOUNCE_MS

NoFires == [acq |-> 0, inf |-> 0, status |-> 0, button |-> 0]
NeverFired == [acq |-> 0 - 1, inf |-> 0 - 1, status |-> 0 - 1]

Init ==
    /\ clock = BootTime
    /\ pc = "top"
    /\ now = 0
    /\ prev_now = 0
    /\ last_sample_time = 0
    /\ last_inference_time = 0
    /\ last_status_time = 0
    /\ heartbeat_counter = 0
    /\ geophone_buffer = EmptyBuffer
    /\ inference = [label |-> "unset", confidence |-> 0]
    /\ total_events = 0
    /\ high_confidence_events = 0
    /\ critical_events = 0
    /\ alert_silenced = FALSE
    /\ last_press = 0
    /\ gpio = [p \in Pins |-> 0]
    /\ button_pin \in BOOLEAN
    /\ pushes = 0
    /\ recent = << >>
    /\ window_read = << >>
    /\ fired = NoFires
    /\ fire_now = NeverFired
    /\ pushes_at_inference = 0 - 1
    /\ toggles = 0
    /\ button_read = "none"
    /\ sinks = NoSinks

\* while (1) { uint32_t now = to_ms_since_boot(get_absolute_time());
LoopTop ==
    /\ pc = "top"
    /\ heartbeat_counter < MaxIter
    /\ now' = clock
    /\ prev_now' = now
    /\ fired' = NoFires
    /\ UNCHANGED fire_now
    /\ sinks' = NoSinks
    /\ window_read' = << >>
    /\ button_read' = "none"
    /\ pc' = "acq"
    /\ UNCHANGED << clock, last_sample_time, last_inference_time,
                    last_status_time, heartbeat_counter, geophone_buffer,
                    inference, total_events, high_confidence_events,
                    critical_events, alert_silenced, last_press, gpio,
                    button_pin, pushes, pushes_at_inference, toggles, recent >>

Push(s, v) == IF Len(s) < WINDOW_SIZE THEN Append(s, v) ELSE Append(Tail(s), v)

\* acquisition cadence: acquire_geophone_sample, buffer_add_sample
Acquire ==
    /\ pc = "acq"
    /\ Due(now, last_sample_time, SAMPLE_PERIOD_MS)
    /\ \E v \in Samples :
          /\ geophone_buffer' = buffer_add_sample(geophone_buffer, v)
          /\ recent' = Push(recent, v)
    /\ pushes' = pushes + 1
    /\ last_sample_time' = CadenceStamp(now, last_sample_time, SAMPLE_PERIOD_MS)
    /\ fired' = [fired EXCEPT !.acq = @ + 1]
    /\ fire_now' = [fire_now EXCEPT !.acq = now]
    /\ pc' = "inf"
    /\ UNCHANGED << clock, now, prev_now, last_inference_time, last_status_time,
                    heartbeat_counter, inference, total_events,
                    high_confidence_events, critical_events, alert_silenced,
                    last_press, gpio, button_pin, window_read,
                    pushes_at_inference, toggles, button_read, sinks >>

AcquireSkip ==
    /\ pc = "acq"
    /\ ~Due(now, last_sample_time, SAMPLE_PERIOD_MS)
    /\ pc' = "inf"
    /\ UNCHANGED << clock, now, prev_now, last_sample_time, last_inference_time,
                    last_status_time, heartbeat_counter, geophone_buffer,
                    inference, total_events, high_confidence_events,
                    critical_events, alert_silenced, last_press, gpio,
                    button_pin, pushes, recent, window_read, fired, fire_now,
                    pushes_at_inference, toggles, button_read, sinks >>

\* classification cadence, first half: run_inference(&inference)
RunInference ==
    /\ pc = "inf"
    /\ InferenceDue(geophone_buffer, now, last_inference_time)
    /\ inference' = run_inference(geophone_buffer)
    /\ window_read' = IF geophone_buffer.filled THEN ReadOrder(geophone_buffer)
                      ELSE << >>
    /\ pc' = "process"
    /\ UNCHANGED << clock, now, prev_now, last_sample_time, last_inference_time,
                    last_status_time, heartbeat_counter, geophone_buffer,
                    total_events, high_confidence_events, critical_events,
                    alert_silenced, last_press, gpio, button_pin, pushes,
                    recent, fired, fire_now, pushes_at_inference, toggles, button_read,
                    sinks >>

InferenceSkip ==
    /\ pc = "inf"
    /\ ~InferenceDue(geophone_buffer, now, last_inference_time)
    /\ pc' = "status"
    /\ UNCHANGED << clock, now, prev_now, last_sample_time, last_inference_time,
                    last_status_time, heartbeat_counter, geophone_buffer,
                    inference, total_events, high_confidence_events,
                    critical_events, alert_silenced, last_press, gpio,
                    button_pin, pushes, recent, window_read, fired, fire_now,
                    pushes_at_inference, toggles, button_read, sinks >>

\* a critical alert that spins until the button is pressed to acknowledge it
ProcessInferenceResult_waitack ==
    /\ pc = "process"
    /\ \/ IsQuiet(inference.label)
       \/ Tier(inference.confidence) # "critical"
       \/ ~button_pin
    /\ LET r == process_inference_result(inference, alert_silenced, Counters, gpio)
       IN  /\ total_events' = r.total
           /\ high_confidence_events' = r.high
           /\ critical_events' = r.critical
           /\ gpio' = r.gpio
           /\ sinks' = r.sinks
           /\ clock' = Add32(clock, r.ms)
    /\ last_inference_time' = CadenceStamp(now, last_inference_time,
                                           INFERENCE_PERIOD_MS)
    /\ fired' = [fired EXCEPT !.inf = @ + 1]
    /\ fire_now' = [fire_now EXCEPT !.inf = now]
    /\ pushes_at_inference' = pushes
    /\ pc' = "status"
    /\ UNCHANGED << now, prev_now, last_sample_time, last_status_time,
                    heartbeat_counter, geophone_buffer, inference,
                    alert_silenced, last_press, button_pin, pushes, recent,
                    window_read, toggles, button_read >>

\* the classification branch ending in "continue": the rest of the iteration is skipped
ProcessInferenceResult_continue ==
    /\ pc = "process"
    /\ LET r == process_inference_result(inference, alert_silenced, Counters, gpio)
       IN  /\ total_events' = r.total
           /\ high_confidence_events' = r.high
           /\ critical_events' = r.critical
           /\ gpio' = r.gpio
           /\ sinks' = r.sinks
           /\ clock' = Add32(clock, r.ms)
    /\ last_inference_time' = CadenceStamp(now, last_inference_time,
                                           INFERENCE_PERIOD_MS)
    /\ fired' = [fired EXCEPT !.inf = @ + 1]
    /\ fire_now' = [fire_now EXCEPT !.inf = now]
    /\ pushes_at_inference' = pushes
    /\ pc' = "sleep"
    /\ UNCHANGED << now, prev_now, last_sample_time, last_status_time,
                    heartbeat_counter, geophone_buffer, inference,
                    alert_silenced, last_press, button_pin, pushes, recent,
                    window_read, toggles, button_read >>

\* classification cadence, second half: process_inference_result(&inference);
\* last_inference_time = now.  The alert patterns block: the clock moves on.
ProcessInferenceResult ==
    /\ pc = "process"
    /\ LET r == process_inference_result(inference, alert_silenced, Counters, gpio)
       IN  /\ total_events' = r.total
           /\ high_confidence_events' = r.high
           /\ critical_events' = r.critical
           /\ gpio' = r.gpio
           /\ sinks' = r.sinks
           /\ clock' = Add32(clock, r.ms)
    /\ last_inference_time' = CadenceStamp(now, last_inference_time,
                                           INFERENCE_PERIOD_MS)
    /\ fired' = [fired EXCEPT !.inf = @ + 1]
    /\ fire_now' = [fire_now EXCEPT !.inf = now]
    /\ pushes_at_inference' = pushes
    /\ pc' = "status"
    /\ UNCHANGED << now, prev_now, last_sample_time, last_status_time,
                    heartbeat_counter, geophone_buffer, inference,
                    alert_silenced, last_press, button_pin, pushes, recent,
                    window_read, toggles, button_read >>

\* status cadence: print_system_status is read-only
Status ==
    /\ pc = "status"
    /\ Due(now, last_status_time, STATUS_PERIOD_MS)
    /\ last_status_time' = CadenceStamp(now, last_status_time, STATUS_PERIOD_MS)
    /\ fired' = [fired EXCEPT !.status = @ + 1]
    /\ fire_now' = [fire_now EXCEPT !.status = now]
    /\ pc' = "heartbeat"
    /\ UNCHANGED << clock, now, prev_now, last_sample_time, last_inference_time,
                    heartbeat_counter, geophone_buffer, inference, total_events,
                    high_confidence_events, critical_events, alert_silenced,
                    last_press, gpio, button_pin, pushes, recent, window_read,
                    pushes_at_inference, toggles, button_read, sinks >>

StatusSkip ==
    /\ pc = "status"
    /\ ~Due(now, last_status_time, STATUS_PERIOD_MS)
    /\ pc' = "heartbeat"
    /\ UNCHANGED << clock, now, prev_now, last_sample_time, last_inference_time,
                    last_status_time, heartbeat_counter, geophone_buffer,
                    inference, total_events, high_confidence_events,
                    critical_events, alert_silenced, last_press, gpio,
                    button_pin, pushes, recent, window_read, fired, fire_now,
                    pushes_at_inference, toggles, button_read, sinks >>

\* heartbeat LED and heartbeat_counter++
Heartbeat ==
    /\ pc = "heartbeat"
    /\ gpio' = IF heartbeat_counter % 1000 = 0
               THEN [gpio EXCEPT !["LED_BUILTIN"] = 1]
               ELSE IF heartbeat_counter % 1000 = 100
               THEN [gpio EXCEPT !["LED_BUILTIN"] = 0]
               ELSE gpio
    /\ heartbeat_counter' = Add32(heartbeat_counter, 1)
    /\ pc' = "button"
    /\ UNCHANGED << clock, now, prev_now, last_sample_time, last_inference_time,
                    last_status_time, geophone_buffer, inference, total_events,
                    high_confidence_events, critical_events, alert_silenced,
                    last_press, button_pin, pushes, recent, window_read, fired, fire_now,
                    pushes_at_inference, toggles, button_read, sinks >>

\* check_button choosing the feedback pattern by the state before the flip
ButtonToggle_oldstate ==
    /\ pc = "button"
    /\ ButtonAccepted(button_pin, clock, last_press)
    /\ alert_silenced' = ~alert_silenced
    /\ LET l == led_blink([gpio EXCEPT !["LED_ALERT"] = 0], "LED_BUILTIN",
                          IF alert_silenced THEN 1 ELSE 3, 100)
       IN  /\ gpio' = l.gpio
           /\ clock' = Add32(clock, l.ms)
           /\ sinks' = [sinks EXCEPT !.feedback = l.pulses]
    /\ last_press' = clock
    /\ fired' = [fired EXCEPT !.button = @ + 1]
    /\ UNCHANGED fire_now
    /\ toggles' = IF toggles < 2 THEN toggles + 1 ELSE toggles
    /\ button_read' = "toggled"
    /\ pc' = "sleep"
    /\ UNCHANGED << now, prev_now, last_sample_time, last_inference_time,
                    last_status_time, heartbeat_counter, geophone_buffer,
                    inference, total_events, high_confidence_events,
                    critical_events, button_pin, pushes, recent, window_read,
                    pushes_at_inference >>

\* check_button as a "silence/reset" button that also clears the counters
ButtonToggle_reset ==
    /\ pc = "button"
    /\ ButtonAccepted(button_pin, clock, last_press)
    /\ alert_silenced' = ~alert_silenced
    /\ total_events' = 0
    /\ high_confidence_events' = 0
    /\ critical_events' = 0
    /\ LET l == led_blink([gpio EXCEPT !["LED_ALERT"] = 0], "LED_BUILTIN",
                          IF alert_silenced' THEN 1 ELSE 3, 100)
       IN  /\ gpio' = l.gpio
           /\ clock' = Add32(clock, l.ms)
           /\ sinks' = [sinks EXCEPT !.feedback = l.pulses]
    /\ last_press' = clock
    /\ fired' = [fired EXCEPT !.button = @ + 1]
    /\ UNCHANGED fire_now
    /\ toggles' = IF toggles < 2 THEN toggles + 1 ELSE toggles
    /\ button_read' = "toggled"
    /\ pc' = "sleep"
    /\ UNCHANGED << now, prev_now, last_sample_time, last_inference_time,
                    last_status_time, heartbeat_counter, geophone_buffer,
                    inference, button_pin, pushes, recent, window_read,
                    pushes_at_inference >>

\* check_button, the press accepted: it reads the clock itself
ButtonToggle ==
    /\ pc = "button"
    /\ ButtonAccepted(button_pin, clock, last_press)
    /\ alert_silenced' = ~alert_silenced
    /\ LET l == led_blink([gpio EXCEPT !["LED_ALERT"] = 0], "LED_BUILTIN",
                          IF alert_silenced' THEN 1 ELSE 3, 100)
       IN  /\ gpio' = l.gpio
           /\ clock' = Add32(clock, l.ms)
           /\ sinks' = [sinks EXCEPT !.feedback = l.pulses]
    /\ last_press' = clock
    /\ fired' = [fired EXCEPT !.button = @ + 1]
    /\ UNCHANGED fire_now
    /\ toggles' = IF toggles < 2 THEN toggles + 1 ELSE toggles
    /\ button_read' = "toggled"
    /\ pc' = "sleep"
    /\ UNCHANGED << now, prev_now, last_sample_time, last_inference_time,
                    last_status_time, heartbeat_counter, geophone_buffer,
                    inference, total_events, high_confidence_events,
                    critical_events, button_pin, pushes, recent, window_read,
                    pushes_at_inference >>

ButtonIdle ==
    /\ pc = "button"
    /\ ~ButtonAccepted(button_pin, clock, last_press)
    /\ button_read' = "idle"
    /\ pc' = "sleep"
    /\ UNCHANGED << clock, now, prev_now, last_sample_time, last_inference_time,
                    last_status_time, heartbeat_counter, geophone_buffer,
                    inference, total_events, high_confidence_events,
                    critical_events, alert_silenced, last_press, gpio,
                    button_pin, pushes, recent, window_read, fired, fire_now,
                    pushes_at_inference, toggles, sinks >>

\* sleep_ms(1), plus whatever the iteration took; the operator may press or
\* release the button meanwhile
SleepFor(stalls) ==
    /\ pc = "sleep"
    /\ \E s \in stalls : clock' = Add32(clock, 1 + s)
    /\ button_pin' \in BOOLEAN
    /\ pc' = "top"
    /\ UNCHANGED << now, prev_now, last_sample_time, last_inference_time,
                    last_status_time, heartbeat_counter, geophone_buffer,
                    inference, total_events, high_confidence_events,
                    critical_events, alert_silenced, last_press, gpio, pushes,
                    recent, window_read, fired, fire_now, pushes_at_inference, toggles,
                    button_read, sinks >>

Sleep == SleepFor(Stalls)

Next ==
    \/ LoopTop
    \/ Acquire
    \/ AcquireSkip
    \/ RunInference
    \/ InferenceSkip
    \/ ProcessInferenceResult
    \/ Status
    \/ StatusSkip
    \/ Heartbeat
    \/ ButtonToggle
    \/ ButtonIdle
    \/ Sleep

Spec == Init /\ [][Next]_vars

\* The loop with the iteration time drawn from the two extremes only: the
\* bare sleep_ms(1) tick and the longest stall.
LiveStalls == {0, 3 * STATUS_PERIOD_MS}

SleepLive == SleepFor(LiveStalls)

LiveNext ==
    \/ LoopTop
    \/ Acquire
    \/ AcquireSkip
    \/ RunInference
    \/ InferenceSkip
    \/ ProcessInferenceResult
    \/ Status
    \/ StatusSkip
    \/ Heartbeat
    \/ ButtonToggle
    \/ ButtonIdle
    \/ SleepLive

\* The loop is the only thread and every statement of its body returns
\* (led_blink and buzzer_beep are counted loops, sleep_ms is finite), so a
\* step that can be taken is eventually taken.
SpecLive == Init /\ [][LiveNext]_vars /\ WF_vars(LiveNext)

(***************************************************************************)
(* The alert policy on its own: process_inference_result applied to every  *)
(* label, confidence, silence state and counter value of the input sets.   *)
(***************************************************************************)
PolicyLabels == {"noise", "tremor", "earthquake"}
PolicyConfidences == {Q(0), Q(8499), Q(8500), Q(9499), Q(9500), Q(9800), Q(10000)}

PolicyInit ==
    /\ clock = BootTime
    /\ pc = "process"
    /\ now = BootTime
    /\ prev_now = 0
    /\ last_sample_time = 0
    /\ last_inference_time = 0
    /\ last_status_time = 0
    /\ heartbeat_counter = 0
    /\ geophone_buffer = [EmptyBuffer EXCEPT !.filled = TRUE]
    /\ inference \in [label : PolicyLabels, confidence : PolicyConfidences]
    /\ total_events \in 0 .. MaxEvents
    /\ high_confidence_events \in 0 .. total_events
    /\ critical_events = total_events - high_confidence_events
    /\ alert_silenced \in BOOLEAN
    /\ last_press = 0
    /\ gpio \in { [[p \in Pins |-> 0] EXCEPT !["LED_ALERT"] = l] : l \in {0, 1} }
    /\ button_pin = TRUE
    /\ pushes = WINDOW_SIZE
    /\ recent = [i \in 1 .. WINDOW_SIZE |-> 0]
    /\ window_read = << >>
    /\ fired = NoFires
    /\ fire_now = NeverFired
    /\ pushes_at_inference = 0 - 1
    /\ toggles = 0
    /\ button_read = "none"
    /\ sinks = NoSinks

PolicyNext == ProcessInferenceResult

SpecPolicy == PolicyInit /\ [][PolicyNext]_vars

(***************************************************************************)
(* The end-to-end scenario: one window of synthetic samples is pushed,     *)
(* then one classification cycle (run_inference, process_inference_result) *)
(* runs on it, from zero counters, silenced or not.                        *)
(***************************************************************************)
ScenarioSamples == {100, 0 - 100, 800, 0 - 800}

ScenarioInit ==
    /\ clock = BootTime
    /\ pc = "scenario"
    /\ now = BootTime
    /\ prev_now = 0
    /\ last_sample_time = 0
    /\ last_inference_time = 0
    /\ last_status_time = 0
    /\ heartbeat_counter = 0
    /\ geophone_buffer = EmptyBuffer
    /\ inference = [label |-> "unset", confidence |-> 0]
    /\ total_events = 0
    /\ high_confidence_events = 0
    /\ critical_events = 0
    /\ alert_silenced \in BOOLEAN
    /\ last_press = 0
    /\ gpio = [p \in Pins |-> 0]
    /\ button_pin = TRUE
    /\ pushes = 0
    /\ recent = << >>
    /\ window_read = << >>
    /\ fired = NoFires
    /\ fire_now = NeverFired
    /\ pushes_at_inference = 0 - 1
    /\ toggles = 0
    /\ button_read = "none"
    /\ sinks = NoSinks

ScenarioPush ==
    /\ pc = "scenario"
    /\ pushes < WINDOW_SIZE
    /\ \E v \in ScenarioSamples :
          /\ geophone_buffer' = buffer_add_sample(geophone_buffer, v)
          /\ recent' = Push(recent, v)
    /\ pushes' = pushes + 1
    /\ UNCHANGED << clock, pc, now, prev_now, last_sample_time,
                    last_inference_time, last_status_time, heartbeat_counter,
                    inference, total_events, high_confidence_events,
                    critical_events, alert_silenced, last_press, gpio,
                    button_pin, window_read, fired, fire_now, pushes_at_inference,
                    toggles, button_read, sinks >>

ScenarioClassify ==
    /\ pc = "scenario"
    /\ pushes = WINDOW_SIZE
    /\ inference' = run_inference(geophone_buffer)
    /\ window_read' = ReadOrder(geophone_buffer)
    /\ pc' = "process"
    /\ UNCHANGED << clock, now, prev_now, last_sample_time, last_inference_time,
                    last_status_time, heartbeat_counter, geophone_buffer,
                    total_events, high_confidence_events, critical_events,
                    alert_silenced, last_press, gpio, button_pin, pushes,
                    recent, fired, fire_now, pushes_at_inference, toggles, button_read,
                    sinks >>

ScenarioNext == ScenarioPush \/ ScenarioClassify \/ ProcessInferenceResult

SpecScenario == ScenarioInit /\ [][ScenarioNext]_vars

(***************************************************************************)
(* Properties                                                              *)
(***************************************************************************)
Toggled == alert_silenced' # alert_silenced

\* C1: after k pushes from the empty window, filled is false when
\* k < WINDOW_SIZE and true when k >= WINDOW_SIZE, and no step of the loop
\* ever sets filled back to false.
C1_FilledAfterNPushes ==
    /\ [](geophone_buffer.filled <=> pushes >= WINDOW_SIZE)
    /\ [][geophone_buffer.filled => geophone_buffer'.filled]_vars

C1_Witness ==
    /\ geophone_buffer.filled
    /\ pushes > WINDOW_SIZE
    /\ geophone_buffer.index # 0

\* C2: whenever a classification runs after more than WINDOW_SIZE pushes, the
\* values the classifier read, in reading order, are the last WINDOW_SIZE
\* pushed values, oldest first.
C2_ReadsChronological ==
    (pc = "process" /\ pushes > WINDOW_SIZE) => window_read = recent

\* C3: when the clock advanced by at least three periods of a cadence between
\* two consecutive iterations, the cadence (the classification cadence with
\* the window ready) fires exactly once in the resumed iteration and stores
\* that iteration's clock value, so that it is not due again before a full
\* period after it; no cadence fires more than once in an iteration.
Stalled(period) ==
    /\ heartbeat_counter > 0
    /\ Sub32(now, prev_now) >= 3 * period

C3_StallFiresOnce ==
    [][ /\ (pc = "acq" /\ Stalled(SAMPLE_PERIOD_MS)) =>
              /\ fired'.acq = 1
              /\ pushes' = pushes + 1
              /\ last_sample_time' = now
              /\ ~Due(now, last_sample_time', SAMPLE_PERIOD_MS)
        /\ (pc = "inf" /\ Stalled(INFERENCE_PERIOD_MS) /\ geophone_buffer.filled) =>
              pc' = "process"
        /\ (pc = "process") =>
              /\ fired'.inf = 1
              /\ last_inference_time' = now
              /\ ~Due(now, last_inference_time', INFERENCE_PERIOD_MS)
        /\ (pc = "status" /\ Stalled(STATUS_PERIOD_MS)) =>
              /\ fired'.status = 1
              /\ last_status_time' = now
              /\ ~Due(now, last_status_time', STATUS_PERIOD_MS)
        /\ fired'.acq <= 1 /\ fired'.inf <= 1 /\ fired'.status <= 1
      ]_vars

C3_Witness ==
    /\ pc = "heartbeat"
    /\ Stalled(STATUS_PERIOD_MS)
    /\ fired.acq = 1 /\ fired.inf = 1 /\ fired.status = 1
    /\ last_sample_time = now /\ last_inference_time = now
    /\ last_status_time = now

\* C4: for a result whose label is not "noise", process_inference_result adds
\* exactly 1 to total_events and picks the tier highest-first: confidence
\* >= 0.95 critical (critical_events + 1 only), 0.85 <= confidence < 0.95
\* elevated (high_confidence_events + 1 only), confidence < 0.85 advisory
\* (neither); 0.85 is elevated, 0.95 critical, 0.9499 elevated, 0 advisory.
ExpectedTier(c) ==
    IF c >= Q(9500) THEN "critical"
    ELSE IF Q(8500) <= c /\ c < Q(9500) THEN "high"
    ELSE "low"

C4_TierByConfidence ==
    [][ (pc = "process" /\ inference.label # "noise") =>
          /\ total_events' = total_events + 1
          /\ sinks'.level = ExpectedTier(inference.confidence)
          /\ critical_events' = critical_events +
                (IF ExpectedTier(inference.confidence) = "critical" THEN 1 ELSE 0)
          /\ high_confidence_events' = high_confidence_events +
                (IF ExpectedTier(inference.confidence) = "high" THEN 1 ELSE 0)
          /\ (inference.confidence = Q(8500) => sinks'.level = "high")
          /\ (inference.confidence = Q(9500) => sinks'.level = "critical")
          /\ (inference.confidence = Q(9499) => sinks'.level = "high")
          /\ (inference.confidence = Q(0) => sinks'.level = "low")
      ]_vars

C4_Witness ==
    /\ pc = "status"
    /\ inference.label = "tremor"
    /\ inference.confidence = Q(8500)
    /\ sinks.level = "high"
    /\ high_confidence_events = 1
    /\ total_events = 1

\* C5: a result labelled "noise" is discarded whatever its confidence: no
\* counter changes, no pin changes, no sink is asked to render anything and
\* no time is spent.
C5_QuietDiscarded ==
    [][ (pc = "process" /\ inference.label = "noise") =>
          /\ total_events' = total_events
          /\ high_confidence_events' = high_confidence_events
          /\ critical_events' = critical_events
          /\ gpio' = gpio
          /\ sinks' = NoSinks
          /\ clock' = clock
      ]_vars

C5_Witness ==
    /\ pc = "status"
    /\ inference.label = "noise"
    /\ inference.confidence = Q(10000)
    /\ total_events = 0
    /\ sinks = NoSinks

\* C6: silence gates only the buzzer: for a result that is not "noise"
\* evaluated while alert_silenced, the counters, the LED patterns, the latch
\* and the level of LED_ALERT are those of the same evaluation with
\* alert_silenced false, and the buzzer gets no pulse; a critical result
\* still adds to critical_events and total_events and still lights the latch.
Unsilenced ==
    process_inference_result(inference, FALSE, Counters, gpio)

C6_SilenceGatesBuzzerOnly ==
    [][ (pc = "process" /\ inference.label # "noise" /\ alert_silenced) =>
          /\ total_events' = Unsilenced.total
          /\ high_confidence_events' = Unsilenced.high
          /\ critical_events' = Unsilenced.critical
          /\ sinks'.level = Unsilenced.sinks.level
          /\ sinks'.status = Unsilenced.sinks.status
          /\ sinks'.alert = Unsilenced.sinks.alert
          /\ sinks'.latch = Unsilenced.sinks.latch
          /\ gpio'["LED_ALERT"] = Unsilenced.gpio["LED_ALERT"]
          /\ gpio'["LED_STATUS"] = Unsilenced.gpio["LED_STATUS"]
          /\ sinks'.buzzer = 0
          /\ gpio'["BUZZER_PIN"] = gpio["BUZZER_PIN"]
          /\ (inference.confidence >= Q(9500) =>
                 /\ critical_events' = critical_events + 1
                 /\ total_events' = total_events + 1
                 /\ sinks'.alert > 0
                 /\ sinks'.latch
                 /\ gpio'["LED_ALERT"] = 1)
      ]_vars

C6_Witness ==
    /\ pc = "status"
    /\ alert_silenced
    /\ inference.label = "earthquake"
    /\ sinks.level = "critical"
    /\ sinks.buzzer = 0
    /\ sinks.latch
    /\ critical_events > 0

\* C7: after an accepted toggle at clock value t1, a later read of the
\* pressed button at t2 toggles again exactly when t2 - t1 >= 500 ms.
C7_RefractoryAtLeast500 ==
    [][ (pc = "button" /\ toggles > 0 /\ ~button_pin) =>
          (Toggled <=> Sub32(clock, last_press) >= DEBOUNCE_MS)
      ]_vars

\* C8: in the end-to-end scenario a full window of mean absolute value 0.01
\* is classified "noise" and the cycle changes no counter and asks no sink
\* for anything; a full window of mean absolute value 0.08 is classified
\* "earthquake" with confidence 0.98, which is critical: from zero counters
\* the cycle ends with critical_events = 1 and total_events = 1 and the
\* critical pattern was selected, silenced or not.
C8_EndToEnd ==
    /\ (pc \in {"process", "status"} /\ SumAbs(recent) = Q(100)) =>
          inference.label = "noise"
    /\ (pc = "status" /\ SumAbs(recent) = Q(100)) =>
          /\ total_events = 0
          /\ high_confidence_events = 0
          /\ critical_events = 0
          /\ sinks = NoSinks
          /\ gpio = [p \in Pins |-> 0]
    /\ (pc \in {"process", "status"} /\ SumAbs(recent) = Q(800)) =>
          /\ inference.label = "earthquake"
          /\ inference.confidence = Q(9800)
    /\ (pc = "status" /\ SumAbs(recent) = Q(800)) =>
          /\ total_events = 1
          /\ critical_events = 1
          /\ high_confidence_events = 0
          /\ sinks.level = "critical"
          /\ sinks.alert = 10
          /\ sinks.latch
          /\ gpio["LED_ALERT"] = 1

C8_Witness ==
    /\ pc = "status"
    /\ SumAbs(recent) = Q(800)
    /\ alert_silenced
    /\ critical_events = 1
    /\ sinks.level = "critical"

\* C9: the classification cadence never fires while the window is not
\* filled, however long ago it last fired; the result "insufficient_data"
\* is never handed to process_inference_result.
C9_NoClassificationBeforeReady ==
    /\ (pc = "process") =>
          /\ geophone_buffer.filled
          /\ inference.label # "insufficient_data"
    /\ (fired.inf > 0) => geophone_buffer.filled

C9_Witness ==
    /\ pc = "status"
    /\ ~geophone_buffer.filled
    /\ Sub32(now, last_inference_time) >= 3 * STATUS_PERIOD_MS
    /\ fired.acq = 1
    /\ fired.inf = 0

\* C10: between two consecutive classifications WINDOW_SIZE new samples
\* have been pushed, on every schedule of the loop.
C10_FreshWindow ==
    (pc = "process" /\ pushes_at_inference >= 0) =>
        pushes - pushes_at_inference >= WINDOW_SIZE

\* C11: within one iteration the steps run in the order acquisition,
\* classification, status, (heartbeat,) input check, sleep; check_button
\* runs exactly once in every iteration whether or not a cadence fired; a
\* classification in the iteration of an acquisition reads the window that
\* already holds the sample pushed in that iteration.
LoopOrder ==
    { <<"top", "acq">>, <<"acq", "inf">>, <<"inf", "process">>,
      <<"inf", "status">>, <<"process", "status">>, <<"status", "heartbeat">>,
      <<"heartbeat", "button">>, <<"button", "sleep">>, <<"sleep", "top">> }

LastWritten(gb) == gb.buffer[(gb.index + WINDOW_SIZE - 1) % WINDOW_SIZE]

C11_IterationOrder ==
    [][ /\ << pc, pc' >> \in LoopOrder
        /\ (pc = "button") =>
              (button_read = "none" /\ button_read' \in {"toggled", "idle"})
        /\ (pc # "button" /\ pc # "top") => button_read' = button_read
        /\ (pc' = "top") => button_read' # "none"
        /\ (pc = "inf" /\ pc' = "process" /\ fired.acq = 1) =>
              /\ window_read' = ReadOrder(geophone_buffer)
              /\ LastWritten(geophone_buffer) = recent[Len(recent)]
              /\ \E i \in 1 .. WINDOW_SIZE : window_read'[i] = recent[Len(recent)]
              /\ SumAbs(window_read') = SumAbs(recent)
      ]_vars

C11_Witness ==
    /\ pc = "sleep"
    /\ fired.acq = 1 /\ fired.inf = 1 /\ fired.status = 1
    /\ button_read = "idle"
    /\ pushes > WINDOW_SIZE

\* C12: an accepted toggle flips alert_silenced, drives LED_ALERT low and
\* blinks the feedback LED once when the new state is silenced and three
\* times when it is not; a check that is not accepted (button released, or
\* less than the refractory time since the last toggle) changes none of
\* these and leaves last_press alone.
C12_ToggleEffects ==
    [][ (pc = "button") =>
          /\ Toggled =>
                /\ ~button_pin
                /\ gpio'["LED_ALERT"] = 0
                /\ sinks'.feedback = (IF alert_silenced' THEN 1 ELSE 3)
                /\ clock' = Add32(clock, sinks'.feedback * 2 * 100)
                /\ last_press' = clock
          /\ ~Toggled =>
                /\ gpio' = gpio
                /\ sinks' = sinks
                /\ sinks.feedback = 0
                /\ clock' = clock
                /\ last_press' = last_press
          /\ (button_pin \/ Sub32(clock, last_press) < DEBOUNCE_MS) => ~Toggled
      ]_vars

C12_Witness ==
    /\ pc = "sleep"
    /\ button_read = "toggled"
    /\ toggles = 2
    /\ ~alert_silenced
    /\ sinks.feedback = 3
    /\ sinks.latch
    /\ gpio["LED_ALERT"] = 0

\* C13: total_events, high_confidence_events and critical_events never
\* decrease, and they change only in process_inference_result on a result
\* that is not "noise".
C13_CountersMonotone ==
    [][ /\ total_events' >= total_events
        /\ high_confidence_events' >= high_confidence_events
        /\ critical_events' >= critical_events
        /\ (\/ total_events' # total_events
            \/ high_confidence_events' # high_confidence_events
            \/ critical_events' # critical_events) =>
              (pc = "process" /\ inference.label # "noise")
      ]_vars

C13_Witness ==
    /\ pc = "sleep"
    /\ total_events = 2
    /\ critical_events = 1
    /\ high_confidence_events = 1

\* C14: on every full window run_inference returns a label of {noise,
\* tremor, earthquake} and a confidence within [0, 1]; with a the mean
\* absolute value, a > 0.05 is "earthquake", 0.02 < a <= 0.05 is "tremor",
\* anything else "noise"; the confidence is the band's affine function of a
\* (0.85 + 2a, 0.70 + 5a, the constant 0.95) held at or below 1: a value
\* above 1 is replaced by the band's 0.98, resp. 0.85.
MeanAbs == SumAbs(recent)

C14_ClassifierContract ==
    (pc \in {"process", "status"}) =>
        /\ inference.label \in {"noise", "tremor", "earthquake"}
        /\ inference.confidence >= Q(0)
        /\ inference.confidence <= Q(10000)
        /\ inference.label =
              (IF MeanAbs > Q(500) THEN "earthquake"
               ELSE IF MeanAbs > Q(200) THEN "tremor" ELSE "noise")
        /\ (inference.label = "earthquake") =>
              inference.confidence =
                 (IF Q(8500) + 2 * MeanAbs <= Q(10000)
                  THEN Q(8500) + 2 * MeanAbs ELSE Q(9800))
        /\ (inference.label = "tremor") =>
              inference.confidence =
                 (IF Q(7000) + 5 * MeanAbs <= Q(10000)
                  THEN Q(7000) + 5 * MeanAbs ELSE Q(8500))
        /\ (inference.label = "noise") => inference.confidence = Q(9500)

C14_Witness ==
    /\ pc = "process"
    /\ inference.label = "earthquake"
    /\ inference.confidence = Q(8500) + 2 * MeanAbs
    /\ inference.confidence < Q(10000)

\* C15: the loop never halts or gets stuck: every iteration, with whatever
\* alert pattern or toggle feedback it renders, ends and is followed by the
\* next one (up to the MaxIter iterations explored), and an acquisition that
\* is due at the top of an iteration is carried out, whatever the
\* classification results, counters, silence state and button do.
C15_LoopNeverStuck ==
    /\ <>[](pc = "top" /\ heartbeat_counter = MaxIter)
    /\ (pc = "acq" /\ Due(now, last_sample_time, SAMPLE_PERIOD_MS))
          ~> (pc = "inf" /\ fired.acq = 1 /\ last_sample_time = now)

C15_Witness ==
    /\ pc = "top"
    /\ heartbeat_counter = MaxIter
    /\ pushes = MaxIter
    /\ critical_events > 0
    /\ alert_silenced
    /\ toggles > 0

\* C16: no cadence fires twice in one iteration, and two consecutive fires
\* of a cadence happen in iterations whose clock values are at least the
\* cadence's period apart (10 ms, the window's fill time, 30000 ms).
FiresApart(cadence, period) ==
    (fire_now'[cadence] # fire_now[cadence] \/ fired'[cadence] > fired[cadence]) =>
        /\ fire_now'[cadence] = now
        /\ fired'[cadence] = 1
        /\ fire_now[cadence] >= 0 => Sub32(now, fire_now[cadence]) >= period

C16_NoDoubleFire ==
    [][ /\ FiresApart("acq", SAMPLE_PERIOD_MS)
        /\ FiresApart("inf", INFERENCE_PERIOD_MS)
        /\ FiresApart("status", STATUS_PERIOD_MS)
        /\ fired'.acq <= 1 /\ fired'.inf <= 1 /\ fired'.status <= 1
      ]_vars

C16_Witness ==
    /\ pc = "heartbeat"
    /\ fired.acq = 1 /\ fired.inf = 1 /\ fired.status = 0
    /\ fire_now.acq = now /\ fire_now.inf = now
    /\ pushes_at_inference > WINDOW_SIZE
    /\ Sub32(now, prev_now) < 3 * STATUS_PERIOD_MS

\* C17: check_button, accepted or not, leaves the window, its cursor and
\* filled, the three counters and the three last-fired timestamps as they
\* are; alert_silenced is changed by nothing but an accepted toggle.
C17_ToggleLeavesDetection ==
    [][ /\ (pc = "button") =>
              /\ geophone_buffer' = geophone_buffer
              /\ total_events' = total_events
              /\ high_confidence_events' = high_confidence_events
              /\ critical_events' = critical_events
              /\ last_sample_time' = last_sample_time
              /\ last_inference_time' = last_inference_time
              /\ last_status_time' = last_status_time
        /\ Toggled =>
              /\ pc = "button"
              /\ ~button_pin
              /\ button_read' = "toggled"
      ]_vars

C17_Witness ==
    /\ pc = "sleep"
    /\ button_read = "toggled"
    /\ fired.inf = 1
    /\ total_events = 2
    /\ geophone_buffer.filled
    /\ geophone_buffer.index # 0

\* C18: between operations the cursor is an index of the window and equals
\* the number of pushes modulo WINDOW_SIZE: the next slot to be written,
\* which holds the oldest retained sample once the window is full; a push
\* writes the slot at the cursor and no other slot.
C18_CursorIsNextSlot ==
    /\ [](/\ geophone_buffer.index \in Slots
          /\ geophone_buffer.index = pushes % WINDOW_SIZE
          /\ geophone_buffer.filled =>
                geophone_buffer.buffer[geophone_buffer.index] = recent[1])
    /\ [][ IF pushes' # pushes
           THEN /\ pushes' = pushes + 1
                /\ geophone_buffer'.buffer =
                      [geophone_buffer.buffer EXCEPT
                          ![geophone_buffer.index] = recent'[Len(recent')]]
           ELSE geophone_buffer' = geophone_buffer
         ]_vars

C18_Witness ==
    /\ geophone_buffer.filled
    /\ pushes = WINDOW_SIZE + 1
    /\ geophone_buffer.index = 1
    /\ geophone_buffer.buffer[0] # geophone_buffer.buffer[1]
    /\ recent[1] = geophone_buffer.buffer[1]

\* C19: once a critical classification has switched LED_ALERT on it stays
\* on until an accepted toggle: no other step, in particular no later
\* elevated, advisory or quiet classification, switches it off.
C19_LatchPersists ==
    [][ (gpio["LED_ALERT"] = 1 /\ gpio'["LED_ALERT"] = 0) =>
          (pc = "button" /\ Toggled)
      ]_vars

(***************************************************************************)
(* The loop across the wrap of the millisecond counter                     *)
(***************************************************************************)
\* The loop long after boot, one millisecond before the counter wraps, the
\* window full, each cadence and the debounce one millisecond short of due.
\* Iterations and ghosts are counted from this state.
WrapInit ==
    /\ clock = ClockModulus - 1
    /\ pc = "top"
    /\ now = ClockModulus - SAMPLE_PERIOD_MS
    /\ prev_now = ClockModulus - SAMPLE_PERIOD_MS
    /\ last_sample_time = ClockModulus - SAMPLE_PERIOD_MS
    /\ last_inference_time = ClockModulus - INFERENCE_PERIOD_MS
    /\ last_status_time = ClockModulus - STATUS_PERIOD_MS
    /\ heartbeat_counter = 0
    /\ \E v \in Samples :
          /\ geophone_buffer = [buffer |-> [i \in Slots |-> v], index |-> 0,
                                filled |-> TRUE]
          /\ recent = [i \in 1 .. WINDOW_SIZE |-> v]
    /\ inference = [label |-> "unset", confidence |-> 0]
    /\ total_events = 0
    /\ high_confidence_events = 0
    /\ critical_events = 0
    /\ alert_silenced = FALSE
    /\ last_press = ClockModulus - DEBOUNCE_MS - 1
    /\ gpio = [p \in Pins |-> 0]
    /\ button_pin \in BOOLEAN
    /\ pushes = WINDOW_SIZE
    /\ window_read = << >>
    /\ fired = NoFires
    /\ fire_now = [acq |-> last_sample_time, inf |-> last_inference_time,
                   status |-> last_status_time]
    /\ pushes_at_inference = 0
    /\ toggles = 0
    /\ button_read = "none"
    /\ sinks = NoSinks

SpecWrap == WrapInit /\ [][Next]_vars

\* Time on the unwrapped axis: every timestamp of SpecWrap lies within half
\* a modulus of the wrap, those below the half are past it.
WrapBase == ClockModulus \div 2
Unwrap(t) == IF t >= WrapBase THEN t ELSE t + ClockModulus
Elapsed(t, last) == Unwrap(t) - Unwrap(last)

\* C20: with the true elapsed time since the last fire below the modulus of
\* the counter, each cadence fires in an iteration exactly when the true
\* elapsed time has reached its period (the classification also needs the
\* full window), and a press is accepted exactly when the true time since
\* the last accepted press exceeds the debounce interval, also when the
\* counter has wrapped in between.
C20_WrapSafe ==
    [][ /\ (pc = "acq" /\ Elapsed(now, last_sample_time) < ClockModulus) =>
              (fired'.acq = 1 <=>
                 Elapsed(now, last_sample_time) >= SAMPLE_PERIOD_MS)
        /\ (pc = "inf" /\ Elapsed(now, last_inference_time) < ClockModulus) =>
              (pc' = "process" <=>
                 /\ geophone_buffer.filled
                 /\ Elapsed(now, last_inference_time) >= INFERENCE_PERIOD_MS)
        /\ (pc = "status" /\ Elapsed(now, last_status_time) < ClockModulus) =>
              (fired'.status = 1 <=>
                 Elapsed(now, last_status_time) >= STATUS_PERIOD_MS)
        /\ (pc = "button" /\ Elapsed(clock, last_press) < ClockModulus) =>
              (button_read' = "toggled" <=>
                 /\ ~button_pin
                 /\ Elapsed(clock, last_press) > DEBOUNCE_MS)
      ]_vars

C20_Witness ==
    /\ pc = "sleep"
    /\ prev_now >= WrapBase
    /\ now < WrapBase
    /\ fired.acq = 1
    /\ fired.inf = 1
    /\ fired.status = 1
    /\ button_read = "toggled"

====
